---- MODULE Spec2Model ----
(***************************************************************************)
(* A model of the date engine of API-produtosKosherFortaleza: the pyluach  *)
(* dates module (JulianDay, GregorianDate, HebrewDate and the BaseDate     *)
(* operators) and the helpers of the /date route of main.py.               *)
(*                                                                         *)
(* Julian day values are floats of the form n.5 in the source.  The model  *)
(* stores twice the value, an odd integer, in fields and operators whose   *)
(* name ends in 2 (jd2, day2): 347996.5 is 695993.  Raw day counts given   *)
(* to JulianDay() are modelled in quarters of a day (raw4 = 4 * raw).      *)
(***************************************************************************)
EXTENDS Integers, Sequences, FiniteSets, TLC

VARIABLES cur, src, orig, rhs, hist, err, res, fmt, text, ret, thr

vars == <<cur, src, orig, rhs, hist, err, res, fmt, text, ret, thr>>

-----------------------------------------------------------------------------
(* Python arithmetic.  TLA+ \div and % are Python's // and % for a positive *)
(* divisor; int() truncates toward zero.                                    *)

\* int(p / q) for q > 0
IntTrunc(p, q) == IF p >= 0 THEN p \div q ELSE -((-p) \div q)

Abs(x) == IF x < 0 THEN -x ELSE x

-----------------------------------------------------------------------------
(* Date objects.  kind is "greg", "heb" or "jd"; a calendar date holds      *)
(* year, month, day and the cache _jd (cached = FALSE is _jd = None); a     *)
(* JulianDay holds day (jd2, always set).                                   *)

NoDate == [kind |-> "none", year |-> 0, month |-> 0, day |-> 0,
           cached |-> FALSE, jd2 |-> 0]

\* CalendarDateMixin.__init__: the four assignments
CalendarDate(kind, year, month, day, cached, jd2) ==
    [kind |-> kind, year |-> year, month |-> month, day |-> day,
     cached |-> cached, jd2 |-> jd2]

\* what a call returns: an object, or a raised ValueError and no object
Ok(obj) == [err |-> "none", obj |-> obj]
Raise(e) == [err |-> e, obj |-> NoDate]

-----------------------------------------------------------------------------
(* JulianDay                                                                *)

\* JulianDay.__init__(day) with day = raw4 / 4: the stored day, doubled
JulianDay_day2(raw4) ==
    LET i == IntTrunc(raw4, 4)
    IN  IF raw4 - 4 * i < 2 THEN 2 * i - 1 ELSE 2 * i + 1

JulianDay(raw4) ==
    [kind |-> "jd", year |-> 0, month |-> 0, day |-> 0,
     cached |-> TRUE, jd2 |-> JulianDay_day2(raw4)]

-----------------------------------------------------------------------------
(* GregorianDate                                                            *)

\* _is_leap without the shift of the years before the common era
Greg_is_leap_NoShift(year) ==
    (year % 4 = 0) /\ ~((year % 100 = 0) /\ (year % 400 # 0))

\* GregorianDate._is_leap
Greg_is_leap(year) ==
    LET y == IF year < 0 THEN year + 1 ELSE year
    IN  (y % 4 = 0) /\ ~((y % 100 = 0) /\ (y % 400 # 0))

\* _monthlength with a February of 28 days in every year
Greg_monthlength_NoLeap(year, month) ==
    IF month \in {1, 3, 5, 7, 8, 10, 12} THEN 31
    ELSE IF month = 2 THEN 28
    ELSE 30

\* GregorianDate._monthlength
Greg_monthlength(year, month) ==
    IF month \in {1, 3, 5, 7, 8, 10, 12} THEN 31
    ELSE IF month = 2 THEN (IF Greg_is_leap(year) THEN 29 ELSE 28)
    ELSE 30

\* GregorianDate.__init__
GregorianDate(year, month, day, cached, jd2) ==
    IF month < 1 \/ month > 12 THEN Raise("ValueError")
    ELSE IF day < 1 \/ day > Greg_monthlength(year, month) THEN Raise("ValueError")
    ELSE Ok(CalendarDate("greg", year, month, day, cached, jd2))

\* the formula of GregorianDate.jd, doubled
GregorianDate_formula2(year0, month0, day) ==
    LET y1 == IF year0 < 0 THEN year0 + 1 ELSE year0
        y2 == IF month0 < 3 THEN y1 - 1 ELSE y1
        m2 == IF month0 < 3 THEN month0 + 12 ELSE month0
        m3 == m2 + 1
        a  == y2 \div 100
        b  == 2 - a + (a \div 4)
    IN  2 * (IntTrunc(36525 * y2, 100) + IntTrunc(306001 * m3, 10000) + b + day)
        + 3441989

\* JulianDay.to_greg (Fliegel-Van Flandern)
JulianDay_to_greg(day2) ==
    LET jd == (day2 + 1) \div 2
        L0 == jd + 68569
        n  == (4 * L0) \div 146097
        L1 == L0 - ((146097 * n + 3) \div 4)
        i  == (4000 * (L1 + 1)) \div 1461001
        L2 == L1 - ((1461 * i) \div 4) + 31
        j  == (80 * L2) \div 2447
        day == L2 - ((2447 * j) \div 80)
        L3 == j \div 11
        month == j + 2 - 12 * L3
        y0 == 100 * (n - 49) + i + L3
        year == IF y0 < 1 THEN y0 - 1 ELSE y0
    IN  GregorianDate(year, month, day, TRUE, day2)

-----------------------------------------------------------------------------
(* pyluach.utils: the Hebrew-calendar epoch arithmetic the dates module     *)
(* calls (elapsed days to 1 Tishrei of a year, month lengths, leap test).   *)

Utils_is_leap(year) == ((7 * year) + 1) % 19 < 7

Utils_elapsed_months(year) == (235 * year - 234) \div 19

Utils_elapsed_days(year) ==
    LET months_elapsed == Utils_elapsed_months(year)
        parts_elapsed == 204 + 793 * (months_elapsed % 1080)
        hours_elapsed == 5 + 12 * months_elapsed
                         + 793 * (months_elapsed \div 1080)
                         + (parts_elapsed \div 1080)
        conjunction_day == 1 + 29 * months_elapsed + (hours_elapsed \div 24)
        conjunction_parts == 1080 * (hours_elapsed % 24) + (parts_elapsed % 1080)
        alt_day ==
            IF \/ conjunction_parts >= 19440
               \/ /\ conjunction_day % 7 = 2
                  /\ conjunction_parts >= 9924
                  /\ ~Utils_is_leap(year)
               \/ /\ conjunction_day % 7 = 1
                  /\ conjunction_parts >= 16789
                  /\ Utils_is_leap(year - 1)
            THEN conjunction_day + 1
            ELSE conjunction_day
    IN  IF (alt_day % 7) \in {0, 3, 5} THEN alt_day + 1 ELSE alt_day

Utils_days_in_year(year) == Utils_elapsed_days(year + 1) - Utils_elapsed_days(year)

Utils_long_cheshvan(year) == Utils_days_in_year(year) % 10 = 5

Utils_short_kislev(year) == Utils_days_in_year(year) % 10 = 3

\* months 1..13 only: every caller in the dates module checks the month first
Utils_month_length(year, month) ==
    IF month \in {1, 3, 5, 7, 11} THEN 30
    ELSE IF month \in {2, 4, 6, 10, 13} THEN 29
    ELSE IF month = 12 THEN (IF Utils_is_leap(year) THEN 30 ELSE 29)
    ELSE IF month = 8 THEN (IF Utils_long_cheshvan(year) THEN 30 ELSE 29)
    ELSE (IF Utils_short_kislev(year) THEN 29 ELSE 30)

-----------------------------------------------------------------------------
(* HebrewDate                                                               *)

\* the month order both conversions walk: Tishrei first, 13 removed in a
\* year that is not a leap year
HebMonths(year) ==
    IF Utils_is_leap(year)
    THEN <<7, 8, 9, 10, 11, 12, 13, 1, 2, 3, 4, 5, 6>>
    ELSE <<7, 8, 9, 10, 11, 12, 1, 2, 3, 4, 5, 6>>

\* HebrewDate.__init__
HebrewDate(year, month, day, cached, jd2) ==
    IF year < 1 THEN Raise("ValueError")
    ELSE IF month < 1 \/ month > 13 THEN Raise("ValueError")
    ELSE IF (~Utils_is_leap(year)) /\ month = 13 THEN Raise("ValueError")
    ELSE IF day < 1 \/ day > Utils_month_length(year, month) THEN Raise("ValueError")
    ELSE Ok(CalendarDate("heb", year, month, day, cached, jd2))

\* the loop of HebrewDate.jd from position k of the month list: jd is the
\* running sum, r the value of _jd so far ([set |-> FALSE] is None).  The
\* loop has no break: it runs to the end of the list.
RECURSIVE HebJdLoop(_, _, _, _, _, _, _)
HebJdLoop(months, k, year, month, day, jd, r) ==
    IF k > Len(months) THEN r
    ELSE IF months[k] # month
         THEN HebJdLoop(months, k + 1, year, month, day,
                        jd + Utils_month_length(year, months[k]), r)
         ELSE HebJdLoop(months, k + 1, year, month, day, jd,
                        [set |-> TRUE, jd2 |-> 2 * (jd + (day - 1)) + 695993])

\* one pass of the body of the loop of HebrewDate.jd, with _jd used as the
\* running sum: every pass stores into the object
HebJdStep_SumInField(self, months, l) ==
    IF months[l.k] # self.month
    THEN [self |-> [self EXCEPT !.cached = TRUE,
                                !.jd2 = 2 * (l.acc + Utils_month_length(self.year, months[l.k]))],
          l |-> [l EXCEPT !.k = l.k + 1,
                          !.acc = l.acc + Utils_month_length(self.year, months[l.k])]]
    ELSE [self |-> [self EXCEPT !.cached = TRUE,
                                !.jd2 = 2 * (l.acc + (self.day - 1)) + 695993],
          l |-> [l EXCEPT !.k = l.k + 1]]

\* one pass of the body of the loop of HebrewDate.jd for a caller whose
\* position in the month list is l.k and whose local sum jd is l.acc: the
\* object and the caller afterwards
HebJdStep(self, months, l) ==
    IF months[l.k] # self.month
    THEN [self |-> self,
          l |-> [l EXCEPT !.k = l.k + 1,
                          !.acc = l.acc + Utils_month_length(self.year, months[l.k])]]
    ELSE [self |-> [self EXCEPT !.cached = TRUE,
                                !.jd2 = 2 * (l.acc + (self.day - 1)) + 695993],
          l |-> [l EXCEPT !.k = l.k + 1]]

\* what HebrewDate.jd computes when _jd is None
HebrewDate_formula(year, month, day) ==
    HebJdLoop(HebMonths(year), 1, year, month, day, Utils_elapsed_days(year),
              [set |-> FALSE, jd2 |-> 0])

\* the year scan with >= in place of >: it steps back from a year that
\* begins on the day sought
RECURSIVE HebYearScan_NotStrict(_, _)
HebYearScan_NotStrict(year, jd) ==
    IF Utils_elapsed_days(year) >= jd THEN HebYearScan_NotStrict(year - 1, jd)
    ELSE year

\* the backward year scan of JulianDay.to_heb
RECURSIVE HebYearScan(_, _)
HebYearScan(year, jd) ==
    IF Utils_elapsed_days(year) > jd THEN HebYearScan(year - 1, jd) ELSE year

\* the month walk with > in place of >=: a day count equal to the length
\* of a month stays in that month
RECURSIVE HebMonthWalk_OffByOne(_, _, _, _, _)
HebMonthWalk_OffByOne(months, k, year, days_remaining, day2) ==
    IF k > Len(months) THEN Ok(NoDate)
    ELSE IF days_remaining > Utils_month_length(year, months[k])
         THEN HebMonthWalk_OffByOne(months, k + 1, year,
                  days_remaining - Utils_month_length(year, months[k]), day2)
         ELSE HebrewDate(year, months[k], days_remaining + 1, TRUE, day2)

\* the month walk of JulianDay.to_heb from position k; falling off the end of
\* the list returns None (kind "none", no error)
RECURSIVE HebMonthWalk(_, _, _, _, _)
HebMonthWalk(months, k, year, days_remaining, day2) ==
    IF k > Len(months) THEN Ok(NoDate)
    ELSE IF days_remaining >= Utils_month_length(year, months[k])
         THEN HebMonthWalk(months, k + 1, year,
                           days_remaining - Utils_month_length(year, months[k]), day2)
         ELSE HebrewDate(year, months[k], days_remaining + 1, TRUE, day2)

\* to_heb with the epoch test a day late: day <= 347998
JulianDay_to_heb_LateEpoch(day2) ==
    IF day2 <= 2 * 347998 THEN Raise("ValueError")
    ELSE LET jd == ((day2 + 1) \div 2) - 347997
             year == HebYearScan((jd \div 365) + 2, jd)
         IN  HebMonthWalk(HebMonths(year), 1, year,
                          jd - Utils_elapsed_days(year), day2)

\* JulianDay.to_heb
JulianDay_to_heb(day2) ==
    IF day2 <= 2 * 347997 THEN Raise("ValueError")
    ELSE LET jd == ((day2 + 1) \div 2) - 347997
             year == HebYearScan((jd \div 365) + 2, jd)
         IN  HebMonthWalk(HebMonths(year), 1, year,
                          jd - Utils_elapsed_days(year), day2)

-----------------------------------------------------------------------------
(* The jd property and the BaseDate operators, over any kind of date.       *)

\* self.jd: [set |-> FALSE] when the property returns None
Jd(self) ==
    IF self.kind = "jd" \/ self.cached THEN [set |-> TRUE, jd2 |-> self.jd2]
    ELSE IF self.kind = "greg"
         THEN [set |-> TRUE,
               jd2 |-> GregorianDate_formula2(self.year, self.month, self.day)]
         ELSE HebrewDate_formula(self.year, self.month, self.day)

\* self after self.jd was read: the property stores what it computed in _jd
AfterJd(self) ==
    IF self.kind \in {"greg", "heb"} /\ ~self.cached /\ Jd(self).set
    THEN [self EXCEPT !.cached = TRUE, !.jd2 = Jd(self).jd2]
    ELSE self

\* JulianDay._to_x
To_x(j, type_) ==
    IF type_.kind = "greg" THEN JulianDay_to_greg(j.jd2)
    ELSE IF type_.kind = "heb" THEN JulianDay_to_heb(j.jd2)
    ELSE IF type_.kind = "jd" THEN Ok(j)
    ELSE Raise("TypeError")

\* BaseDate.__add__ with an integer: JulianDay(self.jd + other)._to_x(self)
Date_add(self, other) ==
    IF ~Jd(self).set THEN Raise("TypeError")
    ELSE To_x(JulianDay(2 * (Jd(self).jd2 + 2 * other)), self)

\* BaseDate.__sub__ with an integer: JulianDay(self.jd - other)._to_x(self)
Date_sub(self, other) ==
    IF ~Jd(self).set THEN Raise("TypeError")
    ELSE To_x(JulianDay(2 * (Jd(self).jd2 - 2 * other)), self)

\* BaseDate.__sub__ with a date: abs(self.jd - other.jd), in days
Date_diff(self, other) ==
    IF ~Jd(self).set \/ ~Jd(other).set THEN [err |-> "TypeError", days |-> 0]
    ELSE [err |-> "none", days |-> Abs(Jd(self).jd2 - Jd(other).jd2) \div 2]

\* GregorianDate.to_jd, HebrewDate.to_jd: JulianDay(self.jd)
To_jd(self) ==
    IF ~Jd(self).set THEN Raise("TypeError")
    ELSE Ok(JulianDay(2 * Jd(self).jd2))

\* JulianDay.to_greg, HebrewDate.to_greg (self.to_jd().to_greg())
To_greg(self) ==
    IF self.kind = "jd" THEN JulianDay_to_greg(self.jd2)
    ELSE IF To_jd(self).err # "none" THEN To_jd(self)
    ELSE JulianDay_to_greg(To_jd(self).obj.jd2)

\* JulianDay.to_heb, GregorianDate.to_heb (self.to_jd().to_heb()),
\* HebrewDate.to_heb (return self)
To_heb(self) ==
    IF self.kind = "jd" THEN JulianDay_to_heb(self.jd2)
    ELSE IF self.kind = "heb" THEN Ok(self)
    ELSE IF To_jd(self).err # "none" THEN To_jd(self)
    ELSE JulianDay_to_heb(To_jd(self).obj.jd2)

\* weekday without the day added to the Julian day: int(self.jd + .5) % 7 + 1
Weekday_NoOffset(self) ==
    IF ~Jd(self).set THEN [err |-> "TypeError", n |-> 0]
    ELSE [err |-> "none", n |-> (IntTrunc(Jd(self).jd2 + 1, 2) % 7) + 1]

\* BaseDate.weekday: int(self.jd + .5 + 1) % 7 + 1; None + .5 raises
\* TypeError
Weekday(self) ==
    IF ~Jd(self).set THEN [err |-> "TypeError", n |-> 0]
    ELSE [err |-> "none", n |-> (IntTrunc(Jd(self).jd2 + 3, 2) % 7) + 1]

\* BaseDate.isoweekday: 7 for weekday() 1, else weekday() - 1
Isoweekday(self) ==
    LET weekday == Weekday(self)
    IN  IF weekday.err # "none" THEN weekday
        ELSE IF weekday.n = 1 THEN [err |-> "none", n |-> 7]
        ELSE [err |-> "none", n |-> weekday.n - 1]

\* BaseDate.shabbos: self + (7 - self.weekday())
Shabbos(self) ==
    IF Weekday(self).err # "none" THEN Raise(Weekday(self).err)
    ELSE Date_add(self, 7 - Weekday(self).n)

\* BaseDate.__eq__ between two dates: self.jd == other.jd
Date_eq(self, other) == Jd(self) = Jd(other)

\* BaseDate.__ne__: self.jd != other.jd
Date_ne(self, other) == [err |-> "none", val |-> Jd(self) # Jd(other)]

\* BaseDate.__lt__, __gt__, __le__, __ge__: the Julian days compared; an
\* order comparison with None raises TypeError, which is not caught
Date_lt(self, other) ==
    IF ~Jd(self).set \/ ~Jd(other).set THEN [err |-> "TypeError", val |-> FALSE]
    ELSE [err |-> "none", val |-> Jd(self).jd2 < Jd(other).jd2]

Date_gt(self, other) ==
    IF ~Jd(self).set \/ ~Jd(other).set THEN [err |-> "TypeError", val |-> FALSE]
    ELSE [err |-> "none", val |-> Jd(self).jd2 > Jd(other).jd2]

Date_le(self, other) ==
    IF ~Jd(self).set \/ ~Jd(other).set THEN [err |-> "TypeError", val |-> FALSE]
    ELSE [err |-> "none", val |-> Jd(self).jd2 <= Jd(other).jd2]

Date_ge(self, other) ==
    IF ~Jd(self).set \/ ~Jd(other).set THEN [err |-> "TypeError", val |-> FALSE]
    ELSE [err |-> "none", val |-> Jd(self).jd2 >= Jd(other).jd2]

\* self <op> other for the comparison named op
Date_compare(op, self, other) ==
    IF op = "ne" THEN Date_ne(self, other)
    ELSE IF op = "lt" THEN Date_lt(self, other)
    ELSE IF op = "gt" THEN Date_gt(self, other)
    ELSE IF op = "le" THEN Date_le(self, other)
    ELSE Date_ge(self, other)

\* BaseDate.__eq__ between a date and an int: self.jd is read, other.jd
\* raises AttributeError, __eq__ returns NotImplemented, int.__eq__ does
\* too, and == falls back on the identity of the two objects, which are not
\* the same object
Date_eq_int(self, other) == FALSE

\* __repr__: the class name and the fields, or the day of a JulianDay
Repr(self) ==
    IF self.kind = "jd" THEN <<"JulianDay", self.jd2>>
    ELSE IF self.kind = "greg"
         THEN <<"GregorianDate", self.year, self.month, self.day>>
         ELSE <<"HebrewDate", self.year, self.month, self.day>>

\* BaseDate.__hash__: hash(repr(self)); the hashes of two strings are the
\* same when the strings are, and only then but for a collision
Date_hash(self) == Repr(self)

\* hebrew_leap of the /date route (main.py)
Main_hebrew_leap(year) == (((year * 7) + 1) % 19) < 7

\* hebrew_month of the /date route (main.py): the name, "None" when the
\* function ends without a return; jd is whether htoday.jd was read, which
\* the first htoday == 11 does
Main_hebrew_month(htoday) ==
    IF htoday.month = 1 THEN [err |-> "none", name |-> "Nisan", jd |-> FALSE]
    ELSE IF htoday.month = 2 THEN [err |-> "none", name |-> "Iyyar", jd |-> FALSE]
    ELSE IF htoday.month = 3 THEN [err |-> "none", name |-> "Sivan", jd |-> FALSE]
    ELSE IF htoday.month = 4 THEN [err |-> "none", name |-> "Tammuz", jd |-> FALSE]
    ELSE IF htoday.month = 5 THEN [err |-> "none", name |-> "Av", jd |-> FALSE]
    ELSE IF htoday.month = 6 THEN [err |-> "none", name |-> "Elul", jd |-> FALSE]
    ELSE IF htoday.month = 7 THEN [err |-> "none", name |-> "Tishri", jd |-> FALSE]
    ELSE IF htoday.month = 8 THEN [err |-> "none", name |-> "Heshvan", jd |-> FALSE]
    ELSE IF htoday.month = 9 THEN [err |-> "none", name |-> "Kislev", jd |-> FALSE]
    ELSE IF htoday.month = 10 THEN [err |-> "none", name |-> "Teveth", jd |-> FALSE]
    ELSE IF Date_eq_int(htoday, 11) THEN [err |-> "none", name |-> "Shevat", jd |-> TRUE]
    ELSE IF Date_eq_int(htoday, 12)
         THEN \* htoday.hebrew_leap: a HebrewDate has no such attribute
              [err |-> "AttributeError", name |-> "None", jd |-> TRUE]
    ELSE IF Date_eq_int(htoday, 13) THEN [err |-> "none", name |-> "Adar II", jd |-> TRUE]
    ELSE [err |-> "none", name |-> "None", jd |-> TRUE]

-----------------------------------------------------------------------------
(* HebrewDate.__format__.  A format string is a sequence of characters.     *)
(* The output list holds one item per append: a string (f = "str", s its    *)
(* characters) or the result of a collaborator call, kept as the call:      *)
(* gematria._num_to_str(n, t, g), utils.WEEKDAYS[n], utils._month_name(y,   *)
(* n, t), and strftime of a datetime.date for the directive s.              *)

Item(f, s, n, y, t, g) == [f |-> f, s |-> s, n |-> n, y |-> y, t |-> t, g |-> g]

StrItem(chars) == Item("str", chars, 0, 0, FALSE, FALSE)

Digit(n) == <<"0", "1", "2", "3", "4", "5", "6", "7", "8", "9">>[n + 1]

\* str(n) for 0 <= n <= 99
Str(n) == IF n < 10 THEN <<Digit(n)>> ELSE <<Digit(n \div 10), Digit(n % 10)>>

\* format(n, '02d') for 0 <= n <= 99
Pad2(n) == <<Digit(n \div 10), Digit(n % 10)>>

\* str.casefold on the characters a format directive is compared with
Casefold(c) ==
    IF c = "A" THEN "a" ELSE IF c = "B" THEN "b" ELSE IF c = "Y" THEN "y" ELSE c

\* datetime.date(year, month, day) of a valid calendar date: the standard
\* library holds the years 1 to 9999 and raises ValueError for any other
PyDateOk(year) == year >= 1 /\ year <= 9999

\* self.to_pydate().strftime('%' + curr): the weekday name of the Gregorian
\* projection of a Hebrew date
Strftime_pydate(self, curr) ==
    LET g == To_greg(self)
    IN  IF g.err # "none" THEN [err |-> g.err, item |-> StrItem(<<>>)]
        ELSE IF ~PyDateOk(g.obj.year)
             THEN [err |-> "ValueError", item |-> StrItem(<<>>)]
             ELSE [err |-> "none",
                   item |-> Item("strftime", <<curr>>, Weekday(g.obj).n, 0, FALSE, FALSE)]

\* date(self.year, 1, 1).strftime('%' + curr)
Strftime_year(self, curr) ==
    IF ~PyDateOk(self.year) THEN [err |-> "ValueError", item |-> StrItem(<<>>)]
    ELSE [err |-> "none",
          item |-> Item("strftime", <<curr>>, 0, self.year, FALSE, FALSE)]

\* HebrewDate.hebrew_day, hebrew_year, month_name
Hebrew_day(self, withgershayim) ==
    Item("num_to_str", <<>>, self.day, 0, FALSE, withgershayim)

Hebrew_year(self, thousands) ==
    Item("num_to_str", <<>>, self.year, 0, thousands, TRUE)

Month_name(self, hebrew) ==
    Item("month_name", <<>>, self.month, self.year, hebrew, FALSE)

\* what __format__ ends with: the list new, or an exception and nothing; i is
\* the index the loop stopped at (0-based, as in the source), jd whether
\* self.jd was read
FormatOk(new, i, jd) == [err |-> "none", out |-> new, i |-> i, jd |-> jd]
FormatRaise(i, jd) == [err |-> "ValueError", out |-> <<>>, i |-> i, jd |-> jd]
\* an exception of a call made by __format__ leaves it as it is
FormatRaiseOf(e, i, jd) == [err |-> e, out |-> <<>>, i |-> i, jd |-> jd]

\* the while loop of __format__ from index i (1-based) with the list new;
\* at a '%' the index moves on by one for each character of the directive
RECURSIVE FormatLoop(_, _, _, _, _)
FormatLoop(self, f, i, new, jd) ==
    IF i > Len(f) THEN FormatOk(new, i - 1, jd)
    ELSE IF f[i] # "%" THEN FormatLoop(self, f, i + 1, Append(new, StrItem(<<f[i]>>)), jd)
    ELSE IF i + 1 > Len(f) THEN FormatRaise(i, jd)
    ELSE LET c1 == f[i + 1] IN
      IF c1 = "%" THEN FormatLoop(self, f, i + 2, Append(new, StrItem(<<"%">>)), jd)
      ELSE IF c1 = "*" THEN
        IF i + 2 > Len(f) THEN FormatRaise(i + 1, jd)
        ELSE LET c2 == f[i + 2] IN
          IF c2 = "-" THEN
            IF i + 3 > Len(f) THEN FormatRaise(i + 2, jd)
            ELSE IF f[i + 3] = "d"
                 THEN FormatLoop(self, f, i + 4, Append(new, Hebrew_day(self, FALSE)), jd)
                 ELSE FormatRaise(i + 2, jd)
          ELSE IF c2 = "a" THEN
            IF Weekday(self).err # "none"
            THEN FormatRaiseOf(Weekday(self).err, i + 1, TRUE)
            ELSE FormatLoop(self, f, i + 3,
                Append(new, Item("num_to_str", <<>>, Weekday(self).n, 0, FALSE, TRUE)), TRUE)
          ELSE IF c2 = "A" THEN
            IF Weekday(self).err # "none"
            THEN FormatRaiseOf(Weekday(self).err, i + 1, TRUE)
            ELSE FormatLoop(self, f, i + 3,
                Append(new, Item("WEEKDAYS", <<>>, Weekday(self).n, 0, FALSE, FALSE)), TRUE)
          ELSE IF c2 = "d" THEN
            FormatLoop(self, f, i + 3, Append(new, Hebrew_day(self, TRUE)), jd)
          ELSE IF c2 = "B" THEN
            FormatLoop(self, f, i + 3, Append(new, Month_name(self, TRUE)), jd)
          ELSE IF Casefold(c2) = "y" THEN
            FormatLoop(self, f, i + 3, Append(new, Hebrew_year(self, c2 = "Y")), jd)
          ELSE FormatRaise(i + 1, jd)
      ELSE IF c1 = "-" THEN
        IF i + 2 > Len(f) THEN FormatRaise(i + 1, jd)
        ELSE LET c2 == f[i + 2] IN
          IF c2 = "d" THEN
            FormatLoop(self, f, i + 3, Append(new, StrItem(Str(self.day))), jd)
          ELSE IF c2 = "m" THEN
            FormatLoop(self, f, i + 3, Append(new, StrItem(Str(self.month))), jd)
          ELSE FormatRaise(i + 1, jd)
      ELSE
        IF Casefold(c1) = "a" THEN
          LET r == Strftime_pydate(self, c1) IN
          IF r.err # "none" THEN FormatRaiseOf(r.err, i, TRUE)
          ELSE FormatLoop(self, f, i + 2, Append(new, r.item), TRUE)
        ELSE IF c1 = "w" THEN
          IF Weekday(self).err # "none"
          THEN FormatRaiseOf(Weekday(self).err, i, TRUE)
          ELSE FormatLoop(self, f, i + 2, Append(new, StrItem(Str(Weekday(self).n))), TRUE)
        ELSE IF c1 = "d" THEN
          FormatLoop(self, f, i + 2, Append(new, StrItem(Pad2(self.day))), jd)
        ELSE IF c1 = "B" THEN
          FormatLoop(self, f, i + 2, Append(new, Month_name(self, FALSE)), jd)
        ELSE IF c1 = "m" THEN
          FormatLoop(self, f, i + 2, Append(new, StrItem(Pad2(self.month))), jd)
        ELSE IF Casefold(c1) = "y" THEN
          LET r == Strftime_year(self, c1) IN
          IF r.err # "none" THEN FormatRaise(i, jd)
          ELSE FormatLoop(self, f, i + 2, Append(new, r.item), jd)
        ELSE FormatRaise(i, jd)

\* HebrewDate.__format__(fmt): the list that is joined, or the exception
HebrewDate_format(self, f) == FormatLoop(self, f, 1, <<>>, FALSE)

-----------------------------------------------------------------------------
(* Bounds and the inputs drawn from them.                                   *)

\* calls in one run, the construction included
MaxSteps == 3
\* years on each side of a base year
YearSpan == 1
\* days added or subtracted, besides a week
MaxN == 1
\* raw day counts around a base, in quarters of a day
MaxRaw4 == 6
\* years given to the leap tests, on each side of zero
MaxLeapYear == 410
\* characters in a format string
MaxFmtLen == 4
\* callers reading the jd property of one object at the same time
NumThreads == 2

Around(bases, span) == UNION {(b - span)..(b + span) : b \in bases}

\* construction from any fields: whole years, months and days out of range
GregYears == Around({0, 100, 400, 1900, 2000, 9998}, YearSpan)
HebYears == Around({1, 3761, 5783, 5999}, YearSpan)
Raw4s == UNION {(4 * b - MaxRaw4)..(4 * b + MaxRaw4) : b \in {0, 347997, 2459194}}
LeapYears == -MaxLeapYear..MaxLeapYear

\* arithmetic: a few dates at the ends of months and years, of every kind
ArithGregYears == {-1, 1, 2021}
ArithHebYears == {1, 5784}
ArithRaw4s == {-7, -2, 0, 5, 4 * 347997 + 2, 4 * 2459194 + 2}
Offsets == (-MaxN..MaxN) \cup {-7, 7}
\* the comparisons of BaseDate other than ==
CompareOps == {"ne", "lt", "gt", "le", "ge"}
\* right operands of a subtraction or comparison of two dates, one of each
\* kind
SubOperands ==
    {CalendarDate("greg", 2021, 1, 1, FALSE, 0),
     CalendarDate("heb", 5784, 7, 1, FALSE, 0),
     JulianDay(4 * 2459194 + 2)}

\* formatting: every string over the characters of the directives and one
\* that is in none ("x"), for a date before and a date within the years of
\* datetime.date
FmtChars == {"%", "*", "-", "d", "m", "B", "a", "A", "w", "y", "Y", "x"}
FmtStrings == UNION {[1..n -> FmtChars] : n \in 0..MaxFmtLen}
FormatHebYears == {1, 5784}

\* concurrent reads of jd: dates before and in the common era, Hebrew
\* years with and without a thirteenth month
RaceGregYears == {-1, 2021}
RaceHebYears == {5783, 5784}

\* concurrent readers of jd, and a reader that has not called yet
Threads == 1..NumThreads
IdleThread ==
    [pc |-> "idle", k |-> 0, acc |-> 0, got |-> [set |-> FALSE, jd2 |-> 0]]

-----------------------------------------------------------------------------
(* The state: cur is the date object the caller holds (NoDate when the last *)
(* call returned no object), src the object the last call was made on, as   *)
(* the call left it (the same object as cur when the call returned self),  *)
(* orig the object first constructed, as it was constructed, rhs the       *)
(* right operand of the last subtraction or comparison of two dates, as    *)
(* the call left it.  hist lists the                                        *)
(* calls made, each with its integer arguments; err is the exception the    *)
(* last call raised, res its integer result; fmt and text are the format    *)
(* string and the output list of the last __format__ call, ret the string   *)
(* the last hebrew_month call returned.  thr holds, for each caller reading *)
(* the jd property of cur at the same time as others, where it is in the    *)
(* property (pc), its loop position (k), its local sum (acc) and what it    *)
(* was returned (got).                                                      *)

Init ==
    /\ cur = NoDate
    /\ src = NoDate
    /\ orig = NoDate
    /\ rhs = NoDate
    /\ hist = <<>>
    /\ err = "none"
    /\ res = 0
    /\ fmt = <<>>
    /\ text = <<>>
    /\ ret = "none"
    /\ thr = [t \in Threads |-> IdleThread]

Entry(name, args) == [op |-> name, args |-> args]

\* the names of the calls made, and the arguments of the k-th
Ops == [k \in 1..Len(hist) |-> hist[k].op]
Args(k) == hist[k].args

\* a call on cur that returns r, a date object or an exception, and leaves
\* the object it was made on as after
Call(name, args, r, after) ==
    /\ cur' = r.obj
    /\ err' = r.err
    /\ src' = after
    /\ hist' = Append(hist, Entry(name, args))
    /\ UNCHANGED <<orig, res, fmt, text, ret, thr, rhs>>

\* a constructor call returning r
Construct(name, args, r) ==
    /\ cur' = r.obj
    /\ orig' = r.obj
    /\ err' = r.err
    /\ hist' = <<Entry(name, args)>>
    /\ UNCHANGED <<src, res, fmt, text, ret, thr, rhs>>

CanCall == err = "none" /\ cur.kind # "none" /\ Len(hist) < MaxSteps

NewGregorianDate(Y, M, D) ==
    /\ hist = <<>>
    /\ \E y \in Y, m \in M, d \in D :
        Construct("GregorianDate", <<y, m, d>>, GregorianDate(y, m, d, FALSE, 0))

NewHebrewDate(Y, M, D) ==
    /\ hist = <<>>
    /\ \E y \in Y, m \in M, d \in D :
        Construct("HebrewDate", <<y, m, d>>, HebrewDate(y, m, d, FALSE, 0))

NewJulianDay(R) ==
    /\ hist = <<>>
    /\ \E raw4 \in R : Construct("JulianDay", <<raw4>>, Ok(JulianDay(raw4)))

CallToJd ==
    /\ CanCall
    /\ cur.kind \in {"greg", "heb"}
    /\ Call("to_jd", <<>>, To_jd(cur), AfterJd(cur))

CallToGreg ==
    /\ CanCall
    /\ cur.kind \in {"jd", "heb"}
    /\ Call("to_greg", <<>>, To_greg(cur), AfterJd(cur))

\* HebrewDate.to_heb returns self and does not read jd
CallToHeb ==
    /\ CanCall
    /\ Call("to_heb", <<>>, To_heb(cur),
            IF cur.kind = "heb" THEN cur ELSE AfterJd(cur))

CallAdd ==
    /\ CanCall
    /\ \E n \in Offsets : Call("add", <<n>>, Date_add(cur, n), AfterJd(cur))

CallSub ==
    /\ CanCall
    /\ \E n \in Offsets : Call("sub", <<n>>, Date_sub(cur, n), AfterJd(cur))

\* cur - o for a date o: the days between the two, a number; both operands
\* have had their jd read.  o is cur itself or a date built from fields
CallSubDate ==
    /\ CanCall
    /\ \E o \in SubOperands \cup {cur} :
        /\ res' = Date_diff(cur, o).days
        /\ err' = Date_diff(cur, o).err
        /\ rhs' = AfterJd(o)
    /\ cur' = AfterJd(cur)
    /\ src' = AfterJd(cur)
    /\ hist' = Append(hist, Entry("sub_date", <<>>))
    /\ UNCHANGED <<orig, fmt, text, ret, thr>>

\* cur <op> o for a date o and a comparison other than ==: res is 1 for
\* True and 0 for False; both operands have had their jd read
CallCompare ==
    /\ CanCall
    /\ \E op \in CompareOps, o \in SubOperands \cup {cur} :
        /\ res' = (IF Date_compare(op, cur, o).val THEN 1 ELSE 0)
        /\ err' = Date_compare(op, cur, o).err
        /\ rhs' = AfterJd(o)
        /\ hist' = Append(hist, Entry(op, <<>>))
    /\ cur' = AfterJd(cur)
    /\ src' = AfterJd(cur)
    /\ UNCHANGED <<orig, fmt, text, ret, thr>>

\* weekday() returns an integer, or raises; the caller keeps its object
CallWeekday ==
    /\ CanCall
    /\ res' = Weekday(cur).n
    /\ err' = Weekday(cur).err
    /\ cur' = AfterJd(cur)
    /\ src' = AfterJd(cur)
    /\ hist' = Append(hist, Entry("weekday", <<>>))
    /\ UNCHANGED <<orig, fmt, text, ret, thr, rhs>>

\* isoweekday() calls weekday()
CallIsoweekday ==
    /\ CanCall
    /\ res' = Isoweekday(cur).n
    /\ err' = Isoweekday(cur).err
    /\ cur' = AfterJd(cur)
    /\ src' = AfterJd(cur)
    /\ hist' = Append(hist, Entry("isoweekday", <<>>))
    /\ UNCHANGED <<orig, fmt, text, ret, thr, rhs>>

CallShabbos ==
    /\ CanCall
    /\ Call("shabbos", <<>>, Shabbos(cur), AfterJd(cur))

\* the two leap tests, called on a year
CallGregIsLeap ==
    /\ hist = <<>>
    /\ \E y \in LeapYears :
        /\ res' = (IF Greg_is_leap(y) THEN 1 ELSE 0)
        /\ hist' = <<Entry("_is_leap", <<y>>)>>
    /\ UNCHANGED <<cur, src, orig, err, fmt, text, ret, thr, rhs>>

CallHebrewLeap ==
    /\ hist = <<>>
    /\ \E y \in LeapYears :
        /\ res' = (IF Main_hebrew_leap(y) THEN 1 ELSE 0)
        /\ hist' = <<Entry("hebrew_leap", <<y>>)>>
    /\ UNCHANGED <<cur, src, orig, err, fmt, text, ret, thr, rhs>>

\* hebrew_month(cur) for a Hebrew date; src is left as it is unless it is
\* the object cur
CallHebrewMonth ==
    /\ CanCall
    /\ cur.kind = "heb"
    /\ \E r \in {Main_hebrew_month(cur)} :
        /\ ret' = r.name
        /\ err' = r.err
        /\ cur' = (IF r.jd THEN AfterJd(cur) ELSE cur)
        /\ src' = (IF r.jd /\ src = cur THEN AfterJd(cur) ELSE src)
    /\ hist' = Append(hist, Entry("hebrew_month", <<>>))
    /\ UNCHANGED <<orig, res, fmt, text, thr, rhs>>

\* cur == orig and hash(cur) == hash(orig), for cur and the object first
\* constructed: res is 2 when they are equal, plus 1 when their hashes are
CallEqHash ==
    /\ CanCall
    /\ orig.kind # "none"
    /\ res' = (IF Date_eq(cur, orig) THEN 2 ELSE 0)
              + (IF Date_hash(cur) = Date_hash(orig) THEN 1 ELSE 0)
    /\ cur' = AfterJd(cur)
    /\ src' = AfterJd(cur)
    /\ hist' = Append(hist, Entry("eq_hash", <<>>))
    /\ UNCHANGED <<orig, err, fmt, text, ret, thr, rhs>>

\* format(cur, f) on a Hebrew date just constructed: a string, or an
\* exception and no string
CallFormat ==
    /\ CanCall
    /\ Len(hist) = 1
    /\ cur.kind = "heb"
    /\ \E f \in FmtStrings : \E r \in {HebrewDate_format(cur, f)} :
            /\ fmt' = f
            /\ text' = r.out
            /\ err' = r.err
            /\ hist' = Append(hist, Entry("format", <<>>))
            /\ res' = r.i
            /\ cur' = (IF r.jd THEN AfterJd(cur) ELSE cur)
            /\ src' = (IF r.jd THEN AfterJd(cur) ELSE cur)
    /\ UNCHANGED <<orig, ret, thr, rhs>>

\* The jd property read by several callers at once, one step at a time.
\* A caller first tests self._jd is None.
CanRead(t) ==
    /\ Len(hist) = 1
    /\ err = "none"
    /\ cur.kind \in {"greg", "heb"}
    /\ t \in Threads

JdCheck(t) ==
    /\ CanRead(t)
    /\ thr[t].pc = "idle"
    /\ thr' = [thr EXCEPT ![t] =
                IF cur.cached THEN [@ EXCEPT !.pc = "ret"]
                ELSE IF cur.kind = "greg" THEN [@ EXCEPT !.pc = "compute"]
                ELSE [@ EXCEPT !.pc = "loop", !.k = 1,
                               !.acc = Utils_elapsed_days(cur.year)]]
    /\ UNCHANGED <<cur, src, orig, hist, err, res, fmt, text, ret, rhs>>

\* GregorianDate.jd: the right-hand side of the assignment to self._jd
JdCompute(t) ==
    /\ CanRead(t)
    /\ thr[t].pc = "compute"
    /\ thr' = [thr EXCEPT ![t] =
                [@ EXCEPT !.pc = "store",
                          !.acc = GregorianDate_formula2(cur.year, cur.month, cur.day)]]
    /\ UNCHANGED <<cur, src, orig, hist, err, res, fmt, text, ret, rhs>>

\* GregorianDate.jd: the assignment to self._jd
JdStore(t) ==
    /\ CanRead(t)
    /\ thr[t].pc = "store"
    /\ cur' = [cur EXCEPT !.cached = TRUE, !.jd2 = thr[t].acc]
    /\ thr' = [thr EXCEPT ![t] = [@ EXCEPT !.pc = "ret"]]
    /\ UNCHANGED <<src, orig, hist, err, res, fmt, text, ret, rhs>>

\* HebrewDate.jd: one pass of the loop over the months, or its end
JdLoop(t) ==
    /\ CanRead(t)
    /\ thr[t].pc = "loop"
    /\ IF thr[t].k > Len(HebMonths(cur.year))
       THEN /\ thr' = [thr EXCEPT ![t] = [@ EXCEPT !.pc = "ret"]]
            /\ cur' = cur
       ELSE \E r \in {HebJdStep(cur, HebMonths(cur.year), thr[t])} :
            /\ thr' = [thr EXCEPT ![t] = r.l]
            /\ cur' = r.self
    /\ UNCHANGED <<src, orig, hist, err, res, fmt, text, ret, rhs>>

\* return self._jd
JdReturn(t) ==
    /\ CanRead(t)
    /\ thr[t].pc = "ret"
    /\ thr' = [thr EXCEPT ![t] =
                [@ EXCEPT !.pc = "done",
                          !.got = IF cur.cached THEN [set |-> TRUE, jd2 |-> cur.jd2]
                                  ELSE [set |-> FALSE, jd2 |-> 0]]]
    /\ UNCHANGED <<cur, src, orig, hist, err, res, fmt, text, ret, rhs>>

\* construction from any fields, conversions between the kinds, leap tests
Next ==
    \/ NewGregorianDate(GregYears, 0..13, 0..32)
    \/ NewHebrewDate(HebYears, 0..14, 0..31)
    \/ NewJulianDay(Raw4s)
    \/ CallToJd
    \/ CallToGreg
    \/ CallToHeb
    \/ CallGregIsLeap
    \/ CallHebrewLeap
    \/ CallHebrewMonth
    \/ CallEqHash

Spec == Init /\ [][Next]_vars

\* arithmetic, weekdays and conversions on a few dates of every kind
NextArith ==
    \/ NewGregorianDate(ArithGregYears, {1, 2, 3, 12}, {1, 28, 29, 31})
    \/ NewHebrewDate(ArithHebYears, {6, 7, 12, 13}, {1, 29, 30})
    \/ NewJulianDay(ArithRaw4s)
    \/ CallToJd
    \/ CallToGreg
    \/ CallToHeb
    \/ CallAdd
    \/ CallSub
    \/ CallSubDate
    \/ CallCompare
    \/ CallWeekday
    \/ CallIsoweekday
    \/ CallShabbos

SpecArith == Init /\ [][NextArith]_vars

\* formatting of a few Hebrew dates with every short format string
NextFormat ==
    \/ NewHebrewDate(FormatHebYears, {7}, {9})
    \/ CallFormat

SpecFormat == Init /\ [][NextFormat]_vars

\* several callers read jd of one date built from its fields
NextRace ==
    \/ NewGregorianDate(RaceGregYears, {1, 3}, {1})
    \/ NewHebrewDate(RaceHebYears, {6, 7, 13}, {1})
    \/ \E t \in Threads : JdCheck(t)
    \/ \E t \in Threads : JdCompute(t)
    \/ \E t \in Threads : JdStore(t)
    \/ \E t \in Threads : JdLoop(t)
    \/ \E t \in Threads : JdReturn(t)

SpecRace == Init /\ [][NextRace]_vars

-----------------------------------------------------------------------------
(* Claims about construction, conversion and the leap tests (Spec).         *)

SameFields(a, b) ==
    a.kind = b.kind /\ a.year = b.year /\ a.month = b.month /\ a.day = b.day

\* C1: a valid Gregorian date of a year other than 0, taken to its Julian
\* day (GregorianDate.jd) and back (JulianDay.to_greg), comes back with the
\* same year, month and day.
C1_GregorianRoundTrip ==
    (Ops = <<"GregorianDate", "to_jd", "to_greg">> /\ orig.year # 0)
        => (err = "none" /\ SameFields(cur, orig))

\* The round trip of C1 for the years 1 and later.
GregorianRoundTripCE ==
    (Ops = <<"GregorianDate", "to_jd", "to_greg">> /\ orig.year >= 1)
        => (err = "none" /\ SameFields(cur, orig))

\* the sum of the lengths of the months before position k of a month list
RECURSIVE LengthsBefore(_, _, _)
LengthsBefore(months, k, year) ==
    IF k <= 1 THEN 0
    ELSE LengthsBefore(months, k - 1, year) + Utils_month_length(year, months[k - 1])

\* the position of a month in the Tishrei-first order of its year
PositionOf(year, month) ==
    CHOOSE k \in 1..Len(HebMonths(year)) : HebMonths(year)[k] = month

\* C2: a valid Hebrew date has the Julian day elapsed days to its year, plus
\* the lengths of the months before its month in Tishrei-first order, plus
\* day - 1, plus 347996.5; and JulianDay.to_heb on that value gives back the
\* same year, month and day.
C2_HebrewRoundTrip ==
    /\ Ops = <<"HebrewDate", "to_jd">> /\ err = "none"
        => /\ cur.kind = "jd"
           /\ cur.jd2 = 2 * (Utils_elapsed_days(orig.year)
                             + LengthsBefore(HebMonths(orig.year),
                                             PositionOf(orig.year, orig.month),
                                             orig.year)
                             + (orig.day - 1)) + 695993
    /\ Ops = <<"HebrewDate", "to_jd", "to_heb">>
        => (err = "none" /\ SameFields(cur, orig))

\* the last day of Adar II of a leap year went to its Julian day and back
C2_Witness ==
    /\ Ops = <<"HebrewDate", "to_jd", "to_heb">>
    /\ orig.year = 5784 /\ orig.month = 13 /\ orig.day = 29
    /\ cur.kind = "heb" /\ cur.month = 13 /\ cur.day = 29

\* C3: for a valid Gregorian date g, g.to_heb() succeeds and
\* g.to_heb().to_greg() has the year, month and day of g.
C3_CrossCalendar ==
    /\ Ops = <<"GregorianDate", "to_heb">> /\ orig.kind = "greg"
        => (err = "none" /\ cur.kind = "heb")
    /\ Ops = <<"GregorianDate", "to_heb", "to_greg">>
        => (err = "none" /\ SameFields(cur, orig))

\* C5: JulianDay(raw).day is floor(raw) - 0.5 when raw - floor(raw) < 0.5 and
\* floor(raw) + 0.5 otherwise, for raw of either sign.
C5_Normalisation ==
    Ops = <<"JulianDay">>
        => LET raw4 == Args(1)[1]
               floor == raw4 \div 4
           IN  /\ cur.jd2 = (IF raw4 - 4 * floor < 2 THEN 2 * floor - 1
                             ELSE 2 * floor + 1)
               /\ cur.jd2 % 2 = 1

\* The rule of C5 for raw >= 0, and the n + 0.5 form for every raw.
NormalisationNonNegative ==
    Ops = <<"JulianDay">>
        => LET raw4 == Args(1)[1]
               floor == raw4 \div 4
           IN  /\ raw4 >= 0 => cur.jd2 = (IF raw4 - 4 * floor < 2 THEN 2 * floor - 1
                                          ELSE 2 * floor + 1)
               /\ cur.jd2 % 2 = 1

\* the month lengths and leap rule of the Gregorian calendar, as a table
CivilLeap(year) ==
    LET y == IF year < 0 THEN year + 1 ELSE year
    IN  y % 4 = 0 /\ (y % 100 # 0 \/ y % 400 = 0)

CivilMonthLength(year, month) ==
    <<31, IF CivilLeap(year) THEN 29 ELSE 28, 31, 30, 31, 30,
      31, 31, 30, 31, 30, 31>>[month]

\* the cycle position of a Hebrew year: year mod 19, with 0 read as 19
CyclePosition(year) == IF year % 19 = 0 THEN 19 ELSE year % 19

HebrewCycleLeap(year) == CyclePosition(year) \in {3, 6, 8, 11, 14, 17, 19}

\* C6: GregorianDate(y, m, d) gives an object iff 1 <= m <= 12 and
\* 1 <= d <= monthLength(y, m); HebrewDate(y, m, d) gives one iff y >= 1,
\* 1 <= m <= 13, m is not 13 unless y is a leap year, and
\* 1 <= d <= monthLength(y, m).  The object has the fields given and no
\* cached Julian day; otherwise ValueError is raised and no object exists.
C6_ConstructionValidates ==
    /\ Ops = <<"GregorianDate">> =>
        LET y == Args(1)[1]  m == Args(1)[2]  d == Args(1)[3]
            valid == m \in 1..12 /\ d >= 1 /\ d <= CivilMonthLength(y, m)
        IN  /\ valid => /\ err = "none"
                        /\ cur = CalendarDate("greg", y, m, d, FALSE, 0)
            /\ ~valid => (err = "ValueError" /\ cur = NoDate)
            /\ <<y, m, d>> = <<2000, 2, 29>> => err = "none"
            /\ <<y, m, d>> = <<1900, 2, 29>> => err = "ValueError"
    /\ Ops = <<"HebrewDate">> =>
        LET y == Args(1)[1]  m == Args(1)[2]  d == Args(1)[3]
            valid == /\ y >= 1
                     /\ m \in 1..13
                     /\ (m = 13 => HebrewCycleLeap(y))
                     /\ d >= 1 /\ d <= Utils_month_length(y, m)
        IN  /\ valid => /\ err = "none"
                        /\ cur = CalendarDate("heb", y, m, d, FALSE, 0)
            /\ ~valid => (err = "ValueError" /\ cur = NoDate)

\* 29 February of the centurial year 1900 was refused
C6_Witness ==
    /\ Ops = <<"GregorianDate">>
    /\ Args(1) = <<1900, 2, 29>>
    /\ err = "ValueError"
    /\ cur = NoDate

\* C7: _is_leap(y) is true iff the year, 1 added when negative, is a
\* multiple of 4 and not a multiple of 100 unless one of 400, so of four
\* consecutive centurial years exactly one is leap; hebrew_leap(y) is true
\* for exactly 7 of any 19 consecutive years, those at the cycle positions
\* 3, 6, 8, 11, 14, 17 and 19.
C7_LeapPatterns ==
    /\ Ops = <<"_is_leap">> =>
        LET y == Args(1)[1]
            s == IF y < 0 THEN y + 1 ELSE y
            Unshift(c) == IF c < 0 THEN c - 1 ELSE c
        IN  /\ (res = 1) <=> (s % 4 = 0 /\ (s % 100 # 0 \/ s % 400 = 0))
            /\ res \in {0, 1}
            /\ s % 100 = 0 /\ s # 0 =>
                Cardinality({k \in 0..3 : Greg_is_leap(Unshift(s + 100 * k))}) = 1
    /\ Ops = <<"hebrew_leap">> =>
        LET y == Args(1)[1]
        IN  /\ (res = 1) <=> HebrewCycleLeap(y)
            /\ res \in {0, 1}
            /\ Cardinality({k \in 0..18 : Main_hebrew_leap(y + k)}) = 7

\* the centurial year 400 BCE-shifted, -401, was found to be a leap year
C7_Witness ==
    /\ Ops = <<"_is_leap">>
    /\ Args(1) = <<-401>>
    /\ res = 1

\* the last call was to_heb on a Julian day, or on a Gregorian date, which
\* calls it on its Julian day
ToHebOfJulianDay ==
    Len(hist) >= 2 /\ Ops[Len(hist)] = "to_heb" /\ src.kind \in {"jd", "greg"}

\* C12: JulianDay.to_heb raises ValueError, and gives no HebrewDate, exactly
\* when the Julian day precedes 347997; it does not raise for the Julian
\* day of a valid HebrewDate, that of HebrewDate(1, 7, 1) included.
C12_HebrewDomainError ==
    /\ ToHebOfJulianDay
        => /\ (err = "ValueError") <=> (Jd(src).jd2 < 2 * 347997)
           /\ err = "ValueError" => cur = NoDate
           /\ err \in {"none", "ValueError"}
    /\ Ops = <<"HebrewDate", "to_jd", "to_heb">> => err = "none"
    /\ (Ops = <<"HebrewDate", "to_jd", "to_heb">> /\ Args(1) = <<1, 7, 1>>)
        => (cur.kind = "heb" /\ SameFields(cur, orig))

\* the Julian day 347996.5, the last before the epoch, was refused
C12_Witness ==
    /\ Ops = <<"JulianDay", "to_heb">>
    /\ src.jd2 = 2 * 347997 - 1
    /\ err = "ValueError"
    /\ cur = NoDate

\* the day count and the first estimate of the year in JulianDay.to_heb
ScanTarget(day2) == ((day2 + 1) \div 2) - 347997
ScanEstimate(day2) == (ScanTarget(day2) \div 365) + 2

\* C13: for an accepted Julian day the estimate floor((jd - offset) / 365)
\* + 2 is at least the Hebrew year of the day; the scan back stops at a year
\* not below 1, the greatest whose elapsed days are <= the target; and the
\* month walk returns a HebrewDate of that year.
C13_HebrewYearScan ==
    (ToHebOfJulianDay /\ Jd(src).jd2 > 2 * 347997)
        => LET jd == ScanTarget(Jd(src).jd2)
               est == ScanEstimate(Jd(src).jd2)
               year == HebYearScan(est, jd)
           IN  /\ err = "none"
               /\ year >= 1
               /\ est >= year
               /\ Utils_elapsed_days(year) <= jd
               /\ \A y \in (year + 1)..(est + 1) : Utils_elapsed_days(y) > jd
               /\ cur.kind = "heb"
               /\ cur.year = year
               /\ cur.day >= 1 /\ cur.day <= Utils_month_length(year, cur.month)

\* the last day of the leap year 5784 was found from an estimate beyond it
C13_Witness ==
    /\ Ops = <<"HebrewDate", "to_jd", "to_heb">>
    /\ err = "none"
    /\ ScanEstimate(Jd(src).jd2) > 5784
    /\ cur.kind = "heb" /\ cur.year = 5784 /\ cur.month = 6 /\ cur.day = 29

\* C16: for a Hebrew date of a month from 1 to 13 hebrew_month returns a
\* name, not None and not an error: 'Shevat' for month 11, 'Adar I' for
\* month 12 of a leap year and 'Adar' of another, 'Adar II' for month 13.
C16_MonthNaming ==
    (Len(hist) >= 2 /\ Ops[Len(hist)] = "hebrew_month")
        => /\ err = "none"
           /\ ret # "None"
           /\ cur.month = 11 => ret = "Shevat"
           /\ cur.month = 12 =>
                ret = (IF Main_hebrew_leap(cur.year) THEN "Adar I" ELSE "Adar")
           /\ cur.month = 13 => ret = "Adar II"

\* hebrew_month returns a name for the months 1 to 10 and never raises.
MonthNamingCE ==
    (Len(hist) >= 2 /\ Ops[Len(hist)] = "hebrew_month")
        => /\ err = "none"
           /\ cur.month \in 1..10 =>
                ret = <<"Nisan", "Iyyar", "Sivan", "Tammuz", "Av", "Elul", "Tishri",
                        "Heshvan", "Kislev", "Teveth">>[cur.month]

\* C17: two date objects of any kinds that are == (equal Julian days) have
\* the same hash, the hash of their repr.
C17_HashAgreesWithEq ==
    (Len(hist) >= 2 /\ Ops[Len(hist)] = "eq_hash")
        => (res >= 2 => res = 3)

\* The rule of C17 for two objects of one kind, Gregorian dates of the
\* years before 1 aside.
HashAgreesWithEqCE ==
    (/\ Len(hist) >= 2 /\ Ops[Len(hist)] = "eq_hash"
     /\ cur.kind = orig.kind
     /\ (cur.kind = "greg" => (cur.year >= 1 /\ orig.year >= 1)))
        => (res >= 2 => res = 3)

-----------------------------------------------------------------------------
(* Claims about arithmetic and weekdays (SpecArith).                        *)

\* C4: for a date d of any of the three kinds and an integer n, d + n and
\* then (d + n) - n complete without error, and the result has the kind, the
\* year, month and day, and the Julian day of d.
C4_ArithmeticIdentity ==
    /\ (Len(hist) = 2 /\ Ops[2] = "add") => err = "none"
    /\ (Len(hist) = 3 /\ Ops[2] = "add" /\ Ops[3] = "sub" /\ Args(2) = Args(3))
        => /\ err = "none"
           /\ SameFields(cur, orig)
           /\ Jd(cur).jd2 = Jd(orig).jd2

\* The identity of C4 for Julian days, for Gregorian dates of the years 1
\* and later, and for Hebrew dates whose sum is not before the epoch.
ArithmeticIdentityCE ==
    (/\ Len(hist) = 3 /\ Ops[2] = "add" /\ Ops[3] = "sub" /\ Args(2) = Args(3)
     /\ (orig.kind = "greg" => orig.year >= 1))
        => /\ err = "none"
           /\ SameFields(cur, orig)
           /\ Jd(cur).jd2 = Jd(orig).jd2

\* what the jd formula of a calendar date gives from its own fields
FormulaJd2(o) ==
    IF o.kind = "greg" THEN GregorianDate_formula2(o.year, o.month, o.day)
    ELSE HebrewDate_formula(o.year, o.month, o.day).jd2

\* C14: the stored Julian day of every GregorianDate or HebrewDate reached
\* by construction, conversion and arithmetic is the value the jd formula
\* gives from the year, month and day of that object.
C14_CacheConsistency ==
    \A o \in {cur, src} :
        (o.kind \in {"greg", "heb"} /\ o.cached) => o.jd2 = FormulaJd2(o)

\* The rule of C14 for Hebrew dates and the Gregorian dates of the years 1
\* and later.
CacheConsistencyCE ==
    \A o \in {cur, src} :
        (o.kind \in {"greg", "heb"} /\ o.cached /\ (o.kind = "greg" => o.year >= 1))
            => o.jd2 = FormulaJd2(o)

\* floor(jd + 1.5) mod 7 + 1 of a Julian day given doubled
WeekdayOfJd2(jd2) == (((jd2 + 3) \div 2) % 7) + 1

\* C10: d.weekday() is floor(jd + 1.5) mod 7 + 1, a number from 1 to 7;
\* (d + 1).weekday() is d.weekday() mod 7 + 1; (d + 7).weekday() is
\* d.weekday(); and a date converted to another kind keeps its weekday.
C10_WeekdayCycle ==
    /\ (Len(hist) = 2 /\ Ops[2] = "weekday")
        => (res = WeekdayOfJd2(Jd(orig).jd2) /\ res \in 1..7)
    /\ (Len(hist) = 3 /\ Ops[2] = "add" /\ Ops[3] = "weekday" /\ Args(2) = <<1>>)
        => res = (WeekdayOfJd2(Jd(orig).jd2) % 7) + 1
    /\ (Len(hist) = 3 /\ Ops[2] = "add" /\ Ops[3] = "weekday" /\ Args(2) = <<7>>)
        => res = WeekdayOfJd2(Jd(orig).jd2)
    /\ (Len(hist) = 3 /\ Ops[2] \in {"to_jd", "to_greg", "to_heb"}
                      /\ Ops[3] = "weekday")
        => res = WeekdayOfJd2(Jd(orig).jd2)

\* a Saturday, 1 Tishrei 5784, had a day added and the sum was a Sunday
C10_Witness ==
    /\ Ops = <<"HebrewDate", "add", "weekday">>
    /\ Args(1) = <<5784, 7, 1>>
    /\ Args(2) = <<1>>
    /\ WeekdayOfJd2(Jd(orig).jd2) = 7
    /\ res = 1

\* the object a call returned is the date d: the year, month and day of d,
\* and for a Julian day its value
SameDate(a, b) ==
    SameFields(a, b) /\ (a.kind = "jd" => a.jd2 = b.jd2)

\* C11: d.shabbos() is a date of the kind of d whose weekday() is 7, from 0
\* to 6 days after d, and is d itself when d.weekday() is 7.
C11_NextShabbos ==
    (Len(hist) = 2 /\ Ops[2] = "shabbos")
        => /\ err = "none"
           /\ cur.kind = orig.kind
           /\ Weekday(cur) = [err |-> "none", n |-> 7]
           /\ Jd(cur).jd2 - Jd(orig).jd2 \in {2 * k : k \in 0..6}
           /\ WeekdayOfJd2(Jd(orig).jd2) = 7 => SameDate(cur, orig)

\* The rule of C11 for Julian days, Hebrew dates and the Gregorian dates of
\* the years 1 and later; for every date the Julian day of the result is a
\* Saturday 0 to 6 days on.
NextShabbosCE ==
    (Len(hist) = 2 /\ Ops[2] = "shabbos")
        => /\ err = "none"
           /\ cur.kind = orig.kind
           /\ Weekday(cur) = [err |-> "none", n |-> 7]
           /\ Jd(cur).jd2 - Jd(orig).jd2 \in {2 * k : k \in 0..6}
           /\ (WeekdayOfJd2(Jd(orig).jd2) = 7
               /\ (orig.kind = "greg" => orig.year >= 1)) => SameDate(cur, orig)

-----------------------------------------------------------------------------
(* Claims about formatting (SpecFormat).  The scanner below is built from   *)
(* the table of directives alone: one state per prefix read, one output    *)
(* item per directive.                                                      *)

\* the characters that complete a directive after each prefix
TableChars(state) ==
    CASE state = "AFTER_PERCENT" -> {"%", "d", "m", "B", "a", "A", "w", "y", "Y"}
      [] state = "AFTER_STAR" -> {"d", "B", "a", "A", "y", "Y"}
      [] state = "AFTER_DASH" -> {"d", "m"}
      [] state = "AFTER_STAR_DASH" -> {"d"}
      [] OTHER -> {}

\* the state after reading c in a state, "FAIL" for a format error
Transition(state, c) ==
    CASE state = "LITERAL" -> IF c = "%" THEN "AFTER_PERCENT" ELSE "LITERAL"
      [] state = "AFTER_PERCENT" /\ c = "*" -> "AFTER_STAR"
      [] state = "AFTER_PERCENT" /\ c = "-" -> "AFTER_DASH"
      [] state = "AFTER_STAR" /\ c = "-" -> "AFTER_STAR_DASH"
      [] OTHER -> IF c \in TableChars(state) THEN "LITERAL" ELSE "FAIL"

TwoDigits(n) == <<Digit(n \div 10), Digit(n % 10)>>
Unpadded(n) == IF n < 10 THEN <<Digit(n)>> ELSE TwoDigits(n)

\* the items read c in a state emits for the date (year, month, day) that
\* falls on the weekday wd
Emits(state, c, year, month, day, wd) ==
    CASE state = "LITERAL" /\ c # "%" -> <<StrItem(<<c>>)>>
      [] state = "AFTER_PERCENT" /\ c = "%" -> <<StrItem(<<"%">>)>>
      [] state = "AFTER_PERCENT" /\ c = "d" -> <<StrItem(TwoDigits(day))>>
      [] state = "AFTER_PERCENT" /\ c = "m" -> <<StrItem(TwoDigits(month))>>
      [] state = "AFTER_PERCENT" /\ c = "B" ->
            <<Item("month_name", <<>>, month, year, FALSE, FALSE)>>
      [] state = "AFTER_PERCENT" /\ c \in {"a", "A"} ->
            <<Item("strftime", <<c>>, wd, 0, FALSE, FALSE)>>
      [] state = "AFTER_PERCENT" /\ c = "w" -> <<StrItem(Unpadded(wd))>>
      [] state = "AFTER_PERCENT" /\ c \in {"y", "Y"} ->
            <<Item("strftime", <<c>>, 0, year, FALSE, FALSE)>>
      [] state = "AFTER_DASH" /\ c = "d" -> <<StrItem(Unpadded(day))>>
      [] state = "AFTER_DASH" /\ c = "m" -> <<StrItem(Unpadded(month))>>
      [] state = "AFTER_STAR" /\ c = "d" ->
            <<Item("num_to_str", <<>>, day, 0, FALSE, TRUE)>>
      [] state = "AFTER_STAR" /\ c = "B" ->
            <<Item("month_name", <<>>, month, year, TRUE, FALSE)>>
      [] state = "AFTER_STAR" /\ c = "a" ->
            <<Item("num_to_str", <<>>, wd, 0, FALSE, TRUE)>>
      [] state = "AFTER_STAR" /\ c = "A" ->
            <<Item("WEEKDAYS", <<>>, wd, 0, FALSE, FALSE)>>
      [] state = "AFTER_STAR" /\ c = "y" ->
            <<Item("num_to_str", <<>>, year, 0, FALSE, TRUE)>>
      [] state = "AFTER_STAR" /\ c = "Y" ->
            <<Item("num_to_str", <<>>, year, 0, TRUE, TRUE)>>
      [] state = "AFTER_STAR_DASH" /\ c = "d" ->
            <<Item("num_to_str", <<>>, day, 0, FALSE, FALSE)>>
      [] OTHER -> <<>>

\* the scanner from character k in a state with the items emitted so far:
\* every character is read once; the end of the string is accepted in the
\* state LITERAL only
RECURSIVE Scan(_, _, _, _, _, _, _, _)
Scan(f, k, state, out, year, month, day, wd) ==
    IF state = "FAIL" THEN [err |-> "ValueError", out |-> <<>>, read |-> k - 1]
    ELSE IF k > Len(f)
         THEN IF state = "LITERAL"
              THEN [err |-> "none", out |-> out, read |-> Len(f)]
              ELSE [err |-> "ValueError", out |-> <<>>, read |-> Len(f)]
         ELSE Scan(f, k + 1, Transition(state, f[k]),
                   out \o Emits(state, f[k], year, month, day, wd),
                   year, month, day, wd)

Scanner(self, f) ==
    Scan(f, 1, "LITERAL", <<>>, self.year, self.month, self.day,
         WeekdayOfJd2(Jd(self).jd2))

\* every '%' of f starts a directive of the table
TableAccepts(f) == Scan(f, 1, "LITERAL", <<>>, 0, 0, 0, 0).err = "none"

\* C8: format(d, f) raises ValueError and gives no string when f has a
\* prefix '%', '%*', '%-' or '%*-' followed by a character that is not a
\* directive of the table for it, or ends after such a prefix; it does not
\* raise when every '%' of f starts a directive of the table.
C8_FormatErrors ==
    Ops = <<"HebrewDate", "format">>
        => /\ ~TableAccepts(fmt) => (err = "ValueError" /\ text = <<>>)
           /\ TableAccepts(fmt) => err = "none"

\* The rule of C8 for a Hebrew date whose own year and whose Gregorian
\* year are years of datetime.date, and the rejections for every date.
FormatErrorsCE ==
    Ops = <<"HebrewDate", "format">>
        => /\ ~TableAccepts(fmt) => (err = "ValueError" /\ text = <<>>)
           /\ (TableAccepts(fmt) /\ orig.year = 5784) => err = "none"

\* C9: format(d, f) does what the five-state scanner of the table does on
\* f: it accepts the same strings, gives the same items in the same order,
\* one per literal character and one per directive, and stops having read
\* every character once.
C9_ScannerEquivalence ==
    Ops = <<"HebrewDate", "format">>
        => LET s == Scanner(orig, fmt)
           IN  /\ err = s.err
               /\ text = s.out
               /\ err = "none" => res = Len(fmt)

\* The equivalence of C9 for a Hebrew date within the years of
\* datetime.date.
ScannerEquivalenceCE ==
    (Ops = <<"HebrewDate", "format">> /\ orig.year = 5784)
        => LET s == Scanner(orig, fmt)
           IN  /\ err = s.err
               /\ text = s.out
               /\ err = "none" => res = Len(fmt)

-----------------------------------------------------------------------------
(* Claims about concurrent reads of jd (SpecRace).                          *)

\* C15: when several callers read jd of one GregorianDate or HebrewDate for
\* the first time at once, in every interleaving each caller is returned
\* the value one caller alone would be, none is returned an unset or a
\* partly summed value, the value left in the cache is that value, and the
\* year, month and day are as they were.
C15_RaceTolerantCache ==
    (Len(hist) = 1 /\ err = "none" /\ orig.kind \in {"greg", "heb"})
        => /\ \A t \in Threads :
                thr[t].pc = "done"
                    => (thr[t].got.set /\ thr[t].got.jd2 = FormulaJd2(orig))
           /\ cur.cached => cur.jd2 = FormulaJd2(orig)
           /\ (\A t \in Threads : thr[t].pc = "done") => cur.cached
           /\ SameFields(cur, orig)

\* every caller found _jd unset, ran the whole loop over the thirteen
\* months of 5784 and returned
C15_Witness ==
    /\ Ops = <<"HebrewDate">>
    /\ Args(1) = <<5784, 13, 1>>
    /\ \A t \in Threads : thr[t].pc = "done" /\ thr[t].k = 14
    /\ cur.cached

====
